---- MODULE Spec2Model ----
(***************************************************************************)
(* Model of one_bc_mg.py: a script that loads an RVE mesh through gmsh,    *)
(* tags the six bounding-box faces of the mesh, imposes a KUBC Dirichlet   *)
(* field, builds the rigid-body near-null-space and solves with CG/GAMG.   *)
(*                                                                         *)
(* The script is one sequential process; pc names the statement that runs  *)
(* next.  Coordinates are integers on a lattice (every formula of the      *)
(* script is invariant under a common scaling of all coordinates, the      *)
(* tolerance eps included).  Real-valued results are exact rationals       *)
(* <<numerator, denominator>>; eps, a Euclidean norm, is kept as its       *)
(* square.  Array indices are zero-based as in the script: At(a, k) reads  *)
(* a[k].                                                                   *)
(***************************************************************************)
EXTENDS Integers, Sequences, FiniteSets

\* ------------------------------------------------------------------ bounds
\* largest number of boundary facets of an input mesh
MaxFacets == 6
\* iteration cap of the Krylov solver (PETSc's default cap, scaled down)
MaxIts == 2
\* largest magnitude of the unit displacement handed to KUBC on its own
MaxUd == 2

\* np.Inf of the bounding-box initialisation: larger than every coordinate
Inf == 1000

VARIABLES
    pc,             \* statement the script executes next
    exit,           \* "running", "ok" (ran to the end) or "error" (exception)
    gmsh_state,     \* "uninit", "initialized", "finalized"
    gmodel,         \* the gmsh model read from the mesh file
    tags,           \* volume tags of the model
    bbox,           \* [xmin, ymin, zmin, xmax, ymax, zmax]
    msh,            \* the DOLFINx mesh: node coordinates and boundary facets
    dirI, dirJ,     \* the two KUBC directions
    epsSq,          \* eps * eps
    left_facets, right_facets, bottom_facets,
    top_facets, front_facets, back_facets,
    marked_facets, markers, facets_order,
    facets_tags,    \* meshtags: parallel arrays indices / values
    unit_disp,      \* rational
    facets,         \* facets of labels 1, 2, 4, 5, 6
    ub_,            \* interpolated KUBC field, one value triple per node
    nonbottom_dofs, \* set of block dofs handed to dirichletbc
    bc_,            \* the Dirichlet condition
    basis,          \* the six numpy arrays of build_nullspace
    basis_petsc,    \* the six PETSc vectors wrapping them
    ns,             \* the PETSc NullSpace returned by build_nullspace
    A,              \* system matrix: assembled flag and near-null-space
    ksp,            \* Krylov solver: reason, iterations
    stdout          \* monitor lines printed

geomVars == <<gmodel, tags, bbox, msh>>
groupVars == <<left_facets, right_facets, bottom_facets,
               top_facets, front_facets, back_facets>>
tagVars == <<marked_facets, markers, facets_order, facets_tags>>
bcVars == <<unit_disp, facets, ub_, nonbottom_dofs, bc_>>
nsVars == <<basis, basis_petsc, ns>>
solveVars == <<A, ksp, stdout>>
vars == <<pc, exit, gmsh_state, geomVars, dirI, dirJ, epsSq, groupVars,
          tagVars, bcVars, nsVars, solveVars>>

\* ------------------------------------------------------------- helpers
At(a, k) == a[k + 1]

Abs(v) == IF v < 0 THEN 0 - v ELSE v

Range(s) == {s[k] : k \in DOMAIN s}

RECURSIVE Sum(_)
Sum(s) == IF s = <<>> THEN 0 ELSE Head(s) + Sum(Tail(s))

\* np.hstack of a sequence of one-dimensional arrays
RECURSIVE hstack(_)
hstack(arrs) == IF arrs = <<>> THEN <<>> ELSE Head(arrs) \o hstack(Tail(arrs))

\* np.full_like(a, v)
full_like(a, v) == [k \in DOMAIN a |-> v]

\* rationals <<n, d>> with d > 0
RZero == <<0, 1>>
RAdd(p, q) == <<p[1] * q[2] + q[1] * p[2], p[2] * q[2]>>
REq(p, q) == p[1] * q[2] = q[1] * p[2]

\* ---------------------------------------------------------- input meshes
\* Bounding boxes of the input geometry.  Every box has extent 6 along each
\* axis; an axis is either centred on the origin or shifted by one.
AxisRanges == {<<0 - 3, 3>>, <<0 - 2, 4>>}

BoxOf(rx, ry, rz) == <<rx[1], ry[1], rz[1], rx[2], ry[2], rz[2]>>

SumSq(box) == (box[1] + box[4]) * (box[1] + box[4])
              + (box[2] + box[5]) * (box[2] + box[5])
              + (box[3] + box[6]) * (box[3] + box[6])

Boxes == {b \in {BoxOf(rx, ry, rz) : rx \in AxisRanges, ry \in AxisRanges,
                                      rz \in AxisRanges} : SumSq(b) <= 4}

\* the unit cube [0,0,0]-[1,1,1] on a lattice of step 1/6
UnitCube == <<0, 0, 0, 6, 6, 6>>

\* Boundary facets (triangles, three vertices) an input mesh is made of:
\* one on each bounding plane, one on the wall of an inner pore, and one
\* chamfer cutting the corner (xmin, ymin, zmin).
ShapeIds == 1 .. 8

Shape(id, b) ==
    LET lx == b[1]  ly == b[2]  lz == b[3]
        hx == b[4]  hy == b[5]  hz == b[6]
    IN CASE id = 1 -> <<<<lx, ly, lz>>, <<lx, hy, lz>>, <<lx, ly, hz>>>>
         [] id = 2 -> <<<<hx, ly, lz>>, <<hx, hy, lz>>, <<hx, ly, hz>>>>
         [] id = 3 -> <<<<lx, ly, lz>>, <<hx, ly, lz>>, <<lx, hy, lz>>>>
         [] id = 4 -> <<<<lx, ly, hz>>, <<hx, ly, hz>>, <<lx, hy, hz>>>>
         [] id = 5 -> <<<<lx, ly, lz>>, <<hx, ly, lz>>, <<lx, ly, hz>>>>
         [] id = 6 -> <<<<lx, hy, lz>>, <<hx, hy, lz>>, <<lx, hy, hz>>>>
         [] id = 7 -> <<<<lx + 3, ly + 3, lz + 3>>, <<lx + 4, ly + 3, lz + 3>>,
                        <<lx + 3, ly + 4, lz + 3>>>>
         [] id = 8 -> <<<<lx + 1, ly, lz>>, <<lx, ly + 1, lz>>,
                        <<lx, ly, lz + 1>>>>

RECURSIVE Ascending(_)
Ascending(S) ==
    IF S = {} THEN <<>>
    ELSE LET m == CHOOSE v \in S : \A w \in S : v <= w
         IN <<m>> \o Ascending(S \ {m})

Reverse(s) == [k \in DOMAIN s |-> s[Len(s) + 1 - k]]

RECURSIVE Dedup(_, _)
Dedup(s, acc) ==
    IF s = <<>> THEN acc
    ELSE Dedup(Tail(s), IF Head(s) \in Range(acc) THEN acc
                        ELSE Append(acc, Head(s)))

IndexOf(x, p) == CHOOSE k \in 0 .. Len(x) - 1 : At(x, k) = p

\* The mesh made of the shapes ids (in that order, facet k-1 is ids[k]):
\* x are the node coordinates, facets the nodes of each boundary facet,
\* dofmap the flattened cell-to-node list.
MeshOf(ids, b) ==
    LET tri == [k \in DOMAIN ids |-> Shape(ids[k], b)]
        x == Dedup(hstack(tri), <<>>)
        fs == [k \in DOMAIN ids |->
                 [v \in 1 .. 3 |-> IndexOf(x, tri[k][v])]]
    IN [valid |-> TRUE, x |-> x, facets |-> fs, dofmap |-> hstack(fs)]

NoMesh == [valid |-> FALSE, x |-> <<>>, facets |-> <<>>, dofmap |-> <<>>]

\* the volumes of the model: one volume, or two halves split along x
TagBoxes(b, nt) ==
    IF nt = 1 THEN <<b>>
    ELSE <<<<b[1] + 3, b[2], b[3], b[4], b[5], b[6]>>,
           <<b[1], b[2], b[3], b[1] + 3, b[5], b[6]>>>>

ShapeSets == {T \in SUBSET ShapeIds : Cardinality(T) \in 1 .. MaxFacets}

MeshesOf(b) ==
    {MeshOf(ids, b) : ids \in UNION {{Ascending(T), Reverse(Ascending(T))} :
                                        T \in ShapeSets}}

\* what gmsh.open can read from the mesh file
MeshInputs ==
    UNION {{[loaded |-> TRUE, boxes |-> TagBoxes(b, nt), mesh |-> m] :
              m \in MeshesOf(b), nt \in 1 .. 2} : b \in Boxes}

NoModel == [loaded |-> FALSE, boxes |-> <<>>, mesh |-> NoMesh]

\* ------------------------------------------------------- face predicates
\* num / den <= sqrt(s), for num > 0, den > 0, s >= 0, in integer arithmetic
LeqSqrt(num, den, s) ==
    LET m == num \div den
        t == num % den
        u == den - t
        g == (m + 1) * (m + 1) - s
        p == 2 * (m + 1) * u - den * g
    IN IF t = 0 THEN m * m <= s
       ELSE IF g <= 0 THEN TRUE
       ELSE IF s <= m * m THEN FALSE
       ELSE IF p <= 0 THEN FALSE
       ELSE IF p >= u THEN TRUE
       ELSE u * u <= den * p

\* np.isclose(a, b, atol): |a - b| <= atol + rtol * |b| with the default
\* rtol = 1e-5; atol is given by its square
isclose(a, b, atolSq) ==
    LET q == Abs(a - b) * 100000 - Abs(b)
    IN q <= 0 \/ LeqSqrt(q, 100000, atolSq)

\* np.linalg.norm(bbox[0:3] + bbox[3:]), squared
eps_of(box) ==
    Sum([k \in 1 .. 3 |->
           (At(box, k - 1) + At(box, k + 2)) * (At(box, k - 1) + At(box, k + 2))])

\* the markers take the vertex coordinates, one point per column, and
\* return one truth value per column
left(x) == [p \in DOMAIN x |-> isclose(At(x[p], 0), At(bbox, 0), epsSq)]

right(x) == [p \in DOMAIN x |-> isclose(At(x[p], 0), At(bbox, 3), epsSq)]

bottom(x) == [p \in DOMAIN x |-> isclose(At(x[p], 2), At(bbox, 2), epsSq)]

top(x) == [p \in DOMAIN x |-> isclose(At(x[p], 2), At(bbox, 5), epsSq)]

front(x) == [p \in DOMAIN x |-> isclose(At(x[p], 1), At(bbox, 1), epsSq)]

back(x) == [p \in DOMAIN x |-> isclose(At(x[p], 1), At(bbox, 4), epsSq)]

\* mesh.locate_entities_boundary(msh, fdim, marker), marked being the
\* marker's answer on the vertices: the boundary facets all of whose
\* vertices are marked, as a sorted index array
locate_entities_boundary(m, marked) ==
    LET idx == [k \in DOMAIN m.facets |-> k - 1]
    IN SelectSeq(idx, LAMBDA f :
                   \A v \in 1 .. 3 : At(marked, At(m.facets, f)[v]))

\* ------------------------------------------------------------ facet tags
\* a[order]: numpy indexing of an array by an index array
Take(a, order) == [k \in DOMAIN order |-> At(a, order[k])]

\* np.argsort(a): the default sort is not stable, so every permutation that
\* sorts a is a possible result
RECURSIVE SortingOrders(_, _)
SortingOrders(a, rest) ==
    IF rest = {} THEN {<<>>}
    ELSE LET least == {p \in rest : \A q \in rest : At(a, p) <= At(a, q)}
         IN UNION {{<<p>> \o s : s \in SortingOrders(a, rest \ {p})} :
                     p \in least}

argsort(a) == SortingOrders(a, 0 .. Len(a) - 1)

\* mesh.meshtags(msh, fdim, indices, values)
meshtags(indices, values) == [indices |-> indices, values |-> values]

NoTags == meshtags(<<>>, <<>>)

\* facets_tags.find(value): the indices whose value is value
find(mt, value) ==
    LET pos == SelectSeq([k \in DOMAIN mt.values |-> k],
                         LAMBDA k : mt.values[k] = value)
    IN [k \in DOMAIN pos |-> mt.indices[pos[k]]]

\* the six groups in the order of the two hstack calls
groups_hstack(l, r, bo, t, f, ba) == hstack(<<l, r, bo, t, f, ba>>)

markers_hstack(l, r, bo, t, f, ba) ==
    hstack(<<full_like(l, 1), full_like(r, 2), full_like(bo, 3),
             full_like(t, 4), full_like(f, 5), full_like(ba, 6)>>)

\* tags_sorted with the labels left in their order before the sort
tags_sorted_unpaired(marked, marks, order) ==
    meshtags(Take(marked, order), marks)

\* the arguments of meshtags for a given argsort result
tags_sorted(marked, marks, order) ==
    meshtags(Take(marked, order), Take(marks, order))

\* ------------------------------------------------------------------ KUBC
\* 0.5 * ud * c / ext as a rational, ud itself a rational
half_term(ud, c, ext) == <<ud[1] * c, 2 * ud[2] * ext>>

\* KUBC with each component scaled by its own coordinate
KUBC_own_axis(x, i, j, ud) ==
    LET zeros == [p \in DOMAIN x |-> <<RZero, RZero, RZero>>]
        first == [p \in DOMAIN x |->
                    [zeros[p] EXCEPT ![i + 1] =
                        RAdd(@, half_term(ud, At(x[p], i),
                                          At(bbox, i + 3) - At(bbox, i)))]]
    IN [p \in DOMAIN x |->
          [first[p] EXCEPT ![j + 1] =
              RAdd(@, half_term(ud, At(x[p], j),
                                At(bbox, j + 3) - At(bbox, j)))]]

\* KUBC(x, i, j, ud): x holds one point per column, the result one
\* displacement per column
KUBC(x, i, j, ud) ==
    LET zeros == [p \in DOMAIN x |-> <<RZero, RZero, RZero>>]
        first == [p \in DOMAIN x |->
                    [zeros[p] EXCEPT ![i + 1] =
                        RAdd(@, half_term(ud, At(x[p], j),
                                          At(bbox, j + 3) - At(bbox, j)))]]
    IN [p \in DOMAIN x |->
          [first[p] EXCEPT ![j + 1] =
              RAdd(@, half_term(ud, At(x[p], i),
                                At(bbox, i + 3) - At(bbox, i)))]]

\* np.mean(bbox[3:] - bbox[:3])
mean_extent(box) == <<Sum([k \in 1 .. 3 |-> At(box, k + 2) - At(box, k - 1)]), 3>>

\* the facets of labels 1, 2, 4, 5, 6
nonbottom_facets(mt) ==
    hstack(<<find(mt, 1), find(mt, 2), find(mt, 4), find(mt, 5), find(mt, 6)>>)

\* fem.locate_dofs_topological(V, dim, entities): the block dofs (nodes) of
\* the closure of the entities
locate_dofs_topological(m, entities) ==
    {At(m.facets, At(entities, k - 1))[v] : k \in DOMAIN entities, v \in 1 .. 3}

\* the entities argument of the locate_dofs_topological call
dirichlet_entities(marked, nonbottom) == marked

NoBC == [set |-> FALSE, g |-> <<>>, dofs |-> {}]

\* ------------------------------------------------------- build_nullspace
\* vec[idx] = vals (sequential assignment, the last write to an index wins)
Assign(vec, idx, vals) ==
    [d \in DOMAIN vec |->
       IF \E p \in DOMAIN idx : idx[p] = d - 1
       THEN LET last == CHOOSE p \in DOMAIN idx :
                           /\ idx[p] = d - 1
                           /\ \A q \in DOMAIN idx : idx[q] = d - 1 => q <= p
            IN vals[last]
       ELSE vec[d]]

Neg(a) == [p \in DOMAIN a |-> 0 - a[p]]

\* fill_basis with the sign of the rotation about z lost
fill_basis_unsigned(m) ==
    LET bs == 3
        zeros == [d \in 1 .. bs * Len(m.x) |-> 0]
        dofs == [i \in 0 .. 2 |-> [p \in DOMAIN m.dofmap |-> bs * m.dofmap[p] + i]]
        ones == [p \in DOMAIN m.dofmap |-> 1]
        x0 == [p \in DOMAIN m.dofmap |-> At(At(m.x, m.dofmap[p]), 0)]
        x1 == [p \in DOMAIN m.dofmap |-> At(At(m.x, m.dofmap[p]), 1)]
        x2 == [p \in DOMAIN m.dofmap |-> At(At(m.x, m.dofmap[p]), 2)]
    IN <<Assign(zeros, dofs[0], ones),
         Assign(zeros, dofs[1], ones),
         Assign(zeros, dofs[2], ones),
         Assign(Assign(zeros, dofs[0], x1), dofs[1], x0),
         Assign(Assign(zeros, dofs[0], x2), dofs[2], Neg(x0)),
         Assign(Assign(zeros, dofs[2], x1), dofs[1], Neg(x2))>>

\* lines 30-52 of build_nullspace: the six arrays before PETSc wraps them
fill_basis(m) ==
    LET bs == 3
        length0 == Len(m.x)
        length1 == length0 + 0
        zeros == [d \in 1 .. bs * length1 |-> 0]
        dofs == [i \in 0 .. 2 |-> [p \in DOMAIN m.dofmap |-> bs * m.dofmap[p] + i]]
        ones == [p \in DOMAIN m.dofmap |-> 1]
        dofs_block == m.dofmap
        x0 == [p \in DOMAIN dofs_block |-> At(At(m.x, dofs_block[p]), 0)]
        x1 == [p \in DOMAIN dofs_block |-> At(At(m.x, dofs_block[p]), 1)]
        x2 == [p \in DOMAIN dofs_block |-> At(At(m.x, dofs_block[p]), 2)]
    IN <<Assign(zeros, dofs[0], ones),
         Assign(zeros, dofs[1], ones),
         Assign(zeros, dofs[2], ones),
         Assign(Assign(zeros, dofs[0], Neg(x1)), dofs[1], x0),
         Assign(Assign(zeros, dofs[0], x2), dofs[2], Neg(x0)),
         Assign(Assign(zeros, dofs[2], x1), dofs[1], Neg(x2))>>

NoVecs == [created |-> FALSE, orthonormal |-> FALSE]

\* la.is_orthonormal(basis_petsc)
is_orthonormal(vecs) == vecs.orthonormal

\* build_nullspace without its assert
assert_skipped(vecs) == TRUE

\* the assert of line 57 lets build_nullspace go on
assert_passes(vecs) == is_orthonormal(vecs)

\* ------------------------------------------------------------ bounding box
\* lines 107-120: fold of the volumes' boxes into bbox
RECURSIVE bbox_loop(_, _)
bbox_loop(box, bufs) ==
    IF bufs = <<>> THEN box
    ELSE LET buf == Head(bufs)
         IN bbox_loop([k \in 1 .. 6 |->
                         IF k <= 3
                         THEN IF box[k] > buf[k] THEN buf[k] ELSE box[k]
                         ELSE IF box[k] < buf[k] THEN buf[k] ELSE box[k]],
                      Tail(bufs))

bbox_init == <<Inf, Inf, Inf, 0 - Inf, 0 - Inf, 0 - Inf>>

\* ------------------------------------------------------------------ Init
NoKsp == [reason |-> "KSP_CONVERGED_ITERATING", its |-> 0]

NoMatrix == [assembled |-> FALSE, bcs |-> {}, nns |-> NoVecs]

\* the values of the names the script has not yet assigned
Unassigned ==
    /\ epsSq = 0
    /\ left_facets = <<>> /\ right_facets = <<>> /\ bottom_facets = <<>>
    /\ top_facets = <<>> /\ front_facets = <<>> /\ back_facets = <<>>
    /\ marked_facets = <<>> /\ markers = <<>> /\ facets_order = <<>>
    /\ facets_tags = NoTags
    /\ facets = <<>> /\ ub_ = <<>> /\ nonbottom_dofs = {} /\ bc_ = NoBC
    /\ basis = <<>> /\ basis_petsc = NoVecs /\ ns = NoVecs
    /\ A = NoMatrix /\ ksp = NoKsp /\ stdout = <<>>

\* the script before its first gmsh call (dirI and dirJ are set above it)
Init ==
    /\ pc = "gmsh_initialize"
    /\ exit = "running"
    /\ gmsh_state = "uninit"
    /\ gmodel = NoModel
    /\ tags = <<>>
    /\ bbox = bbox_init
    /\ msh = NoMesh
    /\ dirI = 1
    /\ dirJ = 2
    /\ unit_disp = RZero
    /\ Unassigned

\* --------------------------------------------------------------- actions
Goto(label) == pc' = label /\ exit' = exit

\* an exception leaves the script
Raise == pc' = "aborted" /\ exit' = "error"

\* line 63
GmshInitialize ==
    /\ pc = "gmsh_initialize"
    /\ gmsh_state' = "initialized"
    /\ Goto("gmsh_options")
    /\ UNCHANGED <<geomVars, dirI, dirJ, epsSq, groupVars, tagVars, bcVars,
                   nsVars, solveVars>>

\* lines 66-86
GmshOptions ==
    /\ pc = "gmsh_options"
    /\ Goto("gmsh_open")
    /\ UNCHANGED <<gmsh_state, geomVars, dirI, dirJ, epsSq, groupVars,
                   tagVars, bcVars, nsVars, solveVars>>

\* line 88: the file is read, or gmsh.open raises
GmshOpen ==
    /\ pc = "gmsh_open"
    /\ \/ /\ gmodel' \in MeshInputs
          /\ Goto("model_setup")
       \/ /\ gmodel' = gmodel
          /\ Raise
    /\ UNCHANGED <<gmsh_state, tags, bbox, msh, dirI, dirJ, epsSq, groupVars,
                   tagVars, bcVars, nsVars, solveVars>>

\* lines 90-99
ModelSetup ==
    /\ pc = "model_setup"
    /\ tags' = [k \in DOMAIN gmodel.boxes |-> k]
    /\ Goto("mesh_generate")
    /\ UNCHANGED <<gmsh_state, gmodel, bbox, msh, dirI, dirJ, epsSq,
                   groupVars, tagVars, bcVars, nsVars, solveVars>>

\* line 105: the mesh is generated, or generate raises
MeshGenerate ==
    /\ pc = "mesh_generate"
    /\ Goto("bbox_loop") \/ Raise
    /\ UNCHANGED <<gmsh_state, geomVars, dirI, dirJ, epsSq, groupVars,
                   tagVars, bcVars, nsVars, solveVars>>

\* lines 107-120
BBoxLoop ==
    /\ pc = "bbox_loop"
    /\ bbox' = bbox_loop(bbox_init, [k \in DOMAIN tags |-> gmodel.boxes[tags[k]]])
    /\ Goto("model_to_mesh")
    /\ UNCHANGED <<gmsh_state, gmodel, tags, msh, dirI, dirJ, epsSq,
                   groupVars, tagVars, bcVars, nsVars, solveVars>>

\* lines 124-127: the mesh is extracted, or model_to_mesh raises
ModelToMesh ==
    /\ pc = "model_to_mesh"
    /\ \/ /\ msh' = gmodel.mesh
          /\ Goto("gmsh_finalize")
       \/ /\ msh' = msh
          /\ Raise
    /\ UNCHANGED <<gmsh_state, gmodel, tags, bbox, dirI, dirJ, epsSq,
                   groupVars, tagVars, bcVars, nsVars, solveVars>>

\* line 130
GmshFinalize ==
    /\ pc = "gmsh_finalize"
    /\ gmsh_state' = "finalized"
    /\ gmodel' = NoModel
    /\ Goto("forms")
    /\ UNCHANGED <<tags, bbox, msh, dirI, dirJ, epsSq, groupVars, tagVars,
                   bcVars, nsVars, solveVars>>

\* lines 138-143
Forms ==
    /\ pc = "forms"
    /\ Goto("eps")
    /\ UNCHANGED <<gmsh_state, geomVars, dirI, dirJ, epsSq, groupVars,
                   tagVars, bcVars, nsVars, solveVars>>

\* line 145
Eps ==
    /\ pc = "eps"
    /\ epsSq' = eps_of(bbox)
    /\ Goto("locate_left")
    /\ UNCHANGED <<gmsh_state, geomVars, dirI, dirJ, groupVars, tagVars,
                   bcVars, nsVars, solveVars>>

\* line 168
LocateLeft ==
    /\ pc = "locate_left"
    /\ left_facets' = locate_entities_boundary(msh, left(msh.x))
    /\ Goto("locate_right")
    /\ UNCHANGED <<gmsh_state, geomVars, dirI, dirJ, epsSq, right_facets,
                   bottom_facets, top_facets, front_facets, back_facets,
                   tagVars, bcVars, nsVars, solveVars>>

\* line 169
LocateRight ==
    /\ pc = "locate_right"
    /\ right_facets' = locate_entities_boundary(msh, right(msh.x))
    /\ Goto("locate_bottom")
    /\ UNCHANGED <<gmsh_state, geomVars, dirI, dirJ, epsSq, left_facets,
                   bottom_facets, top_facets, front_facets, back_facets,
                   tagVars, bcVars, nsVars, solveVars>>

\* line 170
LocateBottom ==
    /\ pc = "locate_bottom"
    /\ bottom_facets' = locate_entities_boundary(msh, bottom(msh.x))
    /\ Goto("locate_top")
    /\ UNCHANGED <<gmsh_state, geomVars, dirI, dirJ, epsSq, left_facets,
                   right_facets, top_facets, front_facets, back_facets,
                   tagVars, bcVars, nsVars, solveVars>>

\* line 171
LocateTop ==
    /\ pc = "locate_top"
    /\ top_facets' = locate_entities_boundary(msh, top(msh.x))
    /\ Goto("locate_front")
    /\ UNCHANGED <<gmsh_state, geomVars, dirI, dirJ, epsSq, left_facets,
                   right_facets, bottom_facets, front_facets, back_facets,
                   tagVars, bcVars, nsVars, solveVars>>

\* line 172
LocateFront ==
    /\ pc = "locate_front"
    /\ front_facets' = locate_entities_boundary(msh, front(msh.x))
    /\ Goto("locate_back")
    /\ UNCHANGED <<gmsh_state, geomVars, dirI, dirJ, epsSq, left_facets,
                   right_facets, bottom_facets, top_facets, back_facets,
                   tagVars, bcVars, nsVars, solveVars>>

\* line 173
LocateBack ==
    /\ pc = "locate_back"
    /\ back_facets' = locate_entities_boundary(msh, back(msh.x))
    /\ Goto("merge")
    /\ UNCHANGED <<gmsh_state, geomVars, dirI, dirJ, epsSq, left_facets,
                   right_facets, bottom_facets, top_facets, front_facets,
                   tagVars, bcVars, nsVars, solveVars>>

\* lines 175-196
MergeTags ==
    /\ pc = "merge"
    /\ marked_facets' = groups_hstack(left_facets, right_facets, bottom_facets,
                                      top_facets, front_facets, back_facets)
    /\ markers' = markers_hstack(left_facets, right_facets, bottom_facets,
                                 top_facets, front_facets, back_facets)
    /\ facets_order' \in argsort(marked_facets')
    /\ facets_tags' = tags_sorted(marked_facets', markers', facets_order')
    /\ Goto("unit_disp")
    /\ UNCHANGED <<gmsh_state, geomVars, dirI, dirJ, epsSq, groupVars, bcVars,
                   nsVars, solveVars>>

\* lines 198-200
UnitDisp ==
    /\ pc = "unit_disp"
    /\ unit_disp' = mean_extent(bbox)
    /\ Goto("facets")
    /\ UNCHANGED <<gmsh_state, geomVars, dirI, dirJ, epsSq, groupVars, tagVars,
                   facets, ub_, nonbottom_dofs, bc_, nsVars, solveVars>>

\* lines 211-216
Facets ==
    /\ pc = "facets"
    /\ facets' = nonbottom_facets(facets_tags)
    /\ Goto("interpolate")
    /\ UNCHANGED <<gmsh_state, geomVars, dirI, dirJ, epsSq, groupVars, tagVars,
                   unit_disp, ub_, nonbottom_dofs, bc_, nsVars, solveVars>>

\* lines 218-222: ub_ takes the values of full_bc at the nodes
Interpolate ==
    /\ pc = "interpolate"
    /\ ub_' = KUBC(msh.x, dirI, dirJ, unit_disp)
    /\ Goto("locate_dofs")
    /\ UNCHANGED <<gmsh_state, geomVars, dirI, dirJ, epsSq, groupVars, tagVars,
                   unit_disp, facets, nonbottom_dofs, bc_, nsVars, solveVars>>

\* lines 224-226
LocateDofs ==
    /\ pc = "locate_dofs"
    /\ nonbottom_dofs' =
          locate_dofs_topological(msh, dirichlet_entities(marked_facets, facets))
    /\ Goto("dirichletbc")
    /\ UNCHANGED <<gmsh_state, geomVars, dirI, dirJ, epsSq, groupVars, tagVars,
                   unit_disp, facets, ub_, bc_, nsVars, solveVars>>

\* line 227
DirichletBC ==
    /\ pc = "dirichletbc"
    /\ bc_' = [set |-> TRUE, g |-> ub_, dofs |-> nonbottom_dofs]
    /\ Goto("assemble")
    /\ UNCHANGED <<gmsh_state, geomVars, dirI, dirJ, epsSq, groupVars, tagVars,
                   unit_disp, facets, ub_, nonbottom_dofs, nsVars, solveVars>>

\* lines 232-237
Assemble ==
    /\ pc = "assemble"
    /\ A' = [assembled |-> TRUE, bcs |-> bc_.dofs, nns |-> NoVecs]
    /\ Goto("ns_fill")
    /\ UNCHANGED <<gmsh_state, geomVars, dirI, dirJ, epsSq, groupVars, tagVars,
                   bcVars, nsVars, ksp, stdout>>

\* line 238 calls build_nullspace; lines 30-52
NsFill ==
    /\ pc = "ns_fill"
    /\ basis' = fill_basis(msh)
    /\ Goto("ns_orthonormalize")
    /\ UNCHANGED <<gmsh_state, geomVars, dirI, dirJ, epsSq, groupVars, tagVars,
                   bcVars, basis_petsc, ns, solveVars>>

\* lines 55-56: the PETSc vectors share the arrays' memory and
\* la.orthonormalize rewrites them in place; of the rewritten values only
\* the answer of la.is_orthonormal is kept
NsOrthonormalize ==
    /\ pc = "ns_orthonormalize"
    /\ \E o \in BOOLEAN : basis_petsc' = [created |-> TRUE, orthonormal |-> o]
    /\ basis' = <<>>
    /\ Goto("ns_assert")
    /\ UNCHANGED <<gmsh_state, geomVars, dirI, dirJ, epsSq, groupVars, tagVars,
                   bcVars, ns, solveVars>>

\* lines 57-60: the assert, then the NullSpace is created and returned
NsReturn ==
    /\ pc = "ns_assert"
    /\ IF assert_passes(basis_petsc)
       THEN ns' = basis_petsc /\ Goto("setNearNullSpace")
       ELSE ns' = ns /\ Raise
    /\ UNCHANGED <<gmsh_state, geomVars, dirI, dirJ, epsSq, groupVars, tagVars,
                   bcVars, basis, basis_petsc, solveVars>>

\* line 239
SetNearNullSpace ==
    /\ pc = "setNearNullSpace"
    /\ A' = [A EXCEPT !.nns = ns]
    /\ Goto("solver_setup")
    /\ UNCHANGED <<gmsh_state, geomVars, dirI, dirJ, epsSq, groupVars, tagVars,
                   bcVars, nsVars, ksp, stdout>>

\* lines 242-262
SolverSetup ==
    /\ pc = "solver_setup"
    /\ Goto("solve")
    /\ UNCHANGED <<gmsh_state, geomVars, dirI, dirJ, epsSq, groupVars, tagVars,
                   bcVars, nsVars, solveVars>>

\* what KSPSolve can end with: the relative tolerance reached after some
\* iterations, or the iteration cap hit without reaching it
ksp_outcomes ==
    {[reason |-> "KSP_CONVERGED_RTOL", its |-> n] : n \in 0 .. MaxIts}
    \cup {[reason |-> "KSP_DIVERGED_ITS", its |-> MaxIts]}

\* lines 266-267: the monitor prints one line per iteration, solve returns
Solve ==
    /\ pc = "solve"
    /\ ksp' \in ksp_outcomes
    /\ stdout' = [k \in 1 .. ksp'.its + 1 |-> k - 1]
    /\ Goto("view")
    /\ UNCHANGED <<gmsh_state, geomVars, dirI, dirJ, epsSq, groupVars, tagVars,
                   bcVars, nsVars, A>>

\* lines 268-271: the script runs to its end
ViewAndScatter ==
    /\ pc = "view"
    /\ pc' = "done"
    /\ exit' = "ok"
    /\ UNCHANGED <<gmsh_state, geomVars, dirI, dirJ, epsSq, groupVars, tagVars,
                   bcVars, nsVars, solveVars>>

Next ==
    \/ GmshInitialize \/ GmshOptions \/ GmshOpen \/ ModelSetup
    \/ MeshGenerate \/ BBoxLoop \/ ModelToMesh \/ GmshFinalize
    \/ Forms \/ Eps
    \/ LocateLeft \/ LocateRight \/ LocateBottom
    \/ LocateTop \/ LocateFront \/ LocateBack
    \/ MergeTags \/ UnitDisp \/ Facets \/ Interpolate
    \/ LocateDofs \/ DirichletBC \/ Assemble
    \/ NsFill \/ NsOrthonormalize \/ NsReturn \/ SetNearNullSpace
    \/ SolverSetup \/ Solve \/ ViewAndScatter

Spec == Init /\ [][Next]_vars

\* ---------------------------------------- the tagging stage on a unit cube
\* the script at line 145 with a unit cube as its mesh
InitCube ==
    /\ pc = "eps"
    /\ exit = "running"
    /\ gmsh_state = "finalized"
    /\ gmodel = NoModel
    /\ tags = <<1>>
    /\ bbox = UnitCube
    /\ msh \in MeshesOf(UnitCube)
    /\ dirI = 1
    /\ dirJ = 2
    /\ unit_disp = RZero
    /\ Unassigned

NextCube ==
    \/ Eps
    \/ LocateLeft \/ LocateRight \/ LocateBottom
    \/ LocateTop \/ LocateFront \/ LocateBack

SpecCube == InitCube /\ [][NextCube]_vars

\* --------------------------------------------------------- KUBC on its own
\* boxes, points, directions and magnitudes KUBC is evaluated for
KubcBoxes == {UnitCube, <<0, 0, 0, 2, 4, 6>>, <<0 - 3, 0 - 3, 0 - 3, 3, 3, 3>>}

KubcCoords == {0 - 1, 0, 3}

KubcPoints == {<<a, b, c>> : a \in KubcCoords, b \in KubcCoords, c \in KubcCoords}

InitKUBC ==
    /\ pc = "interpolate"
    /\ exit = "running"
    /\ gmsh_state = "finalized"
    /\ gmodel = NoModel
    /\ tags = <<1>>
    /\ bbox \in KubcBoxes
    /\ \E p \in KubcPoints :
          msh = [valid |-> TRUE, x |-> <<p>>, facets |-> <<>>, dofmap |-> <<>>]
    /\ dirI \in 0 .. 2
    /\ dirJ \in 0 .. 2
    /\ \E u \in (0 - MaxUd) .. MaxUd : unit_disp = <<u, 1>>
    /\ Unassigned

NextKUBC == Interpolate

SpecKUBC == InitKUBC /\ [][NextKUBC]_vars

\* ================================================================ claims
FacetIds == 0 .. Len(msh.facets) - 1

NodesOfFacet(f) == Range(At(msh.facets, f))

\* the facet tags have been built
Tagged ==
    pc \in {"unit_disp", "facets", "interpolate", "locate_dofs", "dirichletbc",
            "assemble", "ns_fill", "ns_orthonormalize", "ns_assert",
            "setNearNullSpace", "solver_setup", "solve", "view", "done"}
    \/ A.assembled

GroupOf(label) ==
    CASE label = 1 -> left_facets
      [] label = 2 -> right_facets
      [] label = 3 -> bottom_facets
      [] label = 4 -> top_facets
      [] label = 5 -> front_facets
      [] label = 6 -> back_facets

\* the boundary facets all of whose vertices have coordinate c along axis
OnPlane(axis, c) ==
    SelectSeq([k \in DOMAIN msh.facets |-> k - 1],
              LAMBDA f : \A n \in NodesOfFacet(f) : At(At(msh.x, n), axis) = c)

\* C1: every degree of freedom of the Dirichlet condition lies on a facet
\* labelled 1, 2, 4, 5 or 6; a node that lies only on facets labelled 3
\* (bottom) is not constrained.
C1_DirichletOffBottom ==
    bc_.set =>
        \A n \in bc_.dofs :
            \E k \in DOMAIN facets_tags.indices :
                /\ facets_tags.values[k] \in {1, 2, 4, 5, 6}
                /\ n \in NodesOfFacet(facets_tags.indices[k])

\* C2: every boundary facet appears exactly once in the merged facet tags,
\* with one label in 1..6.
C2_EveryFacetOnce ==
    Tagged =>
        /\ \A f \in FacetIds :
              Cardinality({k \in DOMAIN facets_tags.indices :
                             facets_tags.indices[k] = f}) = 1
        /\ \A k \in DOMAIN facets_tags.values : facets_tags.values[k] \in 1 .. 6

\* C3: on the unit cube each of the six predicates selects exactly the
\* facets of its own bounding plane, and the six groups together hold every
\* boundary facet.
C3_UnitCubePredicates ==
    (pc = "merge" /\ bbox = UnitCube) =>
        /\ left_facets = OnPlane(0, 0)
        /\ right_facets = OnPlane(0, 6)
        /\ bottom_facets = OnPlane(2, 0)
        /\ top_facets = OnPlane(2, 6)
        /\ front_facets = OnPlane(1, 0)
        /\ back_facets = OnPlane(1, 6)
        /\ UNION {Range(GroupOf(g)) : g \in 1 .. 6} = FacetIds

\* the displacement KUBC prescribes along direction a from the coordinate
\* along direction b: 0.5 * ud * x[b] / extent[b]
Prescribed(x, b, ud) == <<ud[1] * At(x, b), 2 * ud[2] * (At(bbox, b + 3) - At(bbox, b))>>

\* C4: for distinct directions i and j the KUBC value at every point has
\* component i equal to 0.5*ud*x[j]/extent[j], component j equal to
\* 0.5*ud*x[i]/extent[i] and the third component zero; at (0.5, 0.5, 0.5) of
\* the unit cube with i = 1, j = 2, ud = 1 that is (0, 0.25, 0.25).
C4_KUBCValues ==
    (pc = "locate_dofs" /\ dirI # dirJ) =>
        \A p \in DOMAIN ub_ :
            /\ REq(At(ub_[p], dirI), Prescribed(msh.x[p], dirJ, unit_disp))
            /\ REq(At(ub_[p], dirJ), Prescribed(msh.x[p], dirI, unit_disp))
            /\ \A c \in 0 .. 2 \ {dirI, dirJ} : REq(At(ub_[p], c), RZero)
            /\ (/\ bbox = UnitCube /\ dirI = 1 /\ dirJ = 2
                /\ unit_disp = <<1, 1>> /\ msh.x[p] = <<3, 3, 3>>)
               => /\ REq(At(ub_[p], 0), RZero)
                  /\ REq(At(ub_[p], 1), <<1, 4>>)
                  /\ REq(At(ub_[p], 2), <<1, 4>>)

\* the example of C4 has been evaluated
C4_Witness ==
    /\ pc = "locate_dofs"
    /\ bbox = UnitCube /\ dirI = 1 /\ dirJ = 2 /\ unit_disp = <<1, 1>>
    /\ msh.x = <<<<3, 3, 3>>>>
    /\ Len(ub_) = 1

\* C5: before orthonormalisation vectors 0..2 are the unit translations and
\* vectors 3..5 the rotations (-y, x, 0), (z, 0, -x), (0, -z, y) at every
\* node (x, y, z).
C5_RigidBodyModes ==
    pc = "ns_orthonormalize" =>
        /\ Len(basis) = 6
        /\ \A k \in 1 .. 6 : Len(basis[k]) = 3 * Len(msh.x)
        /\ \A n \in 0 .. Len(msh.x) - 1 :
              LET x == At(At(msh.x, n), 0)
                  y == At(At(msh.x, n), 1)
                  z == At(At(msh.x, n), 2)
                  mode(k) == <<At(At(basis, k), 3 * n), At(At(basis, k), 3 * n + 1),
                               At(At(basis, k), 3 * n + 2)>>
              IN /\ mode(0) = <<1, 0, 0>>
                 /\ mode(1) = <<0, 1, 0>>
                 /\ mode(2) = <<0, 0, 1>>
                 /\ mode(3) = <<0 - y, x, 0>>
                 /\ mode(4) = <<z, 0, 0 - x>>
                 /\ mode(5) = <<0, 0 - z, y>>

\* the six arrays are filled for a mesh with a node off every coordinate
\* plane and off the diagonals
C5_Witness ==
    /\ pc = "ns_orthonormalize"
    /\ \E n \in 0 .. Len(msh.x) - 1 :
          LET x == At(At(msh.x, n), 0)
              y == At(At(msh.x, n), 1)
              z == At(At(msh.x, n), 2)
          IN x # 0 /\ y # 0 /\ z # 0 /\ x # y /\ x # z /\ Abs(y) # Abs(z)

\* C6: a basis that is not orthonormal after la.orthonormalize makes
\* build_nullspace abort without a NullSpace, so a near-null-space attached
\* to the matrix is orthonormal.
C6_FailFastNullSpace ==
    /\ (basis_petsc.created /\ ~basis_petsc.orthonormal) =>
          /\ pc \in {"ns_assert", "aborted"}
          /\ ~ns.created
          /\ ~A.nns.created
    /\ A.nns.created => A.nns.orthonormal
    /\ ns.created => ns.orthonormal

\* build_nullspace has aborted on a defective basis
C6_Witness ==
    /\ pc = "aborted"
    /\ exit = "error"
    /\ basis_petsc.created
    /\ ~basis_petsc.orthonormal
    /\ ~A.nns.created

\* C7: a solve that hits the iteration cap without reaching the tolerance
\* ends the run with a failure outcome, never like a converged run.
C7_NonConvergenceReported ==
    (pc = "done" /\ ksp.reason = "KSP_DIVERGED_ITS") => exit # "ok"

\* C8: with an empty face group the script stops before it builds the
\* Dirichlet condition; the condition is never built on an empty set.
C8_EmptyGroupStops ==
    bc_.set =>
        /\ \A g \in 1 .. 6 : GroupOf(g) # <<>>
        /\ bc_.dofs # {}

\* C9: once the script has ended, by an exception or normally, an
\* initialised gmsh has been finalised; and gmsh is finalised only after the
\* mesh has been extracted.
C9_GmshScoped ==
    /\ (pc \in {"aborted", "done"} /\ gmsh_state # "uninit") =>
          gmsh_state = "finalized"
    /\ gmsh_state = "finalized" => msh.valid

IsSorted(a) == \A k \in 1 .. Len(a) - 1 : a[k] <= a[k + 1]

\* C10: the merged tags are sorted by facet index, hold exactly the pairs
\* (f, L) for f in group L, and find(L) returns group L.
C10_MergePreservesPairs ==
    Tagged =>
        /\ IsSorted(facets_tags.indices)
        /\ Len(facets_tags.indices) = Len(facets_tags.values)
        /\ Len(facets_tags.indices) = Sum([g \in 1 .. 6 |-> Len(GroupOf(g))])
        /\ \A k \in DOMAIN facets_tags.values : facets_tags.values[k] \in 1 .. 6
        /\ \A f \in FacetIds, g \in 1 .. 6 :
              Cardinality({k \in DOMAIN facets_tags.indices :
                             /\ facets_tags.indices[k] = f
                             /\ facets_tags.values[k] = g})
              = Cardinality({k \in DOMAIN GroupOf(g) : GroupOf(g)[k] = f})
        /\ \A g \in 1 .. 6 : find(facets_tags, g) = GroupOf(g)

\* tags merged from groups whose concatenation was out of order and in which
\* a facet carries several labels
C10_Witness ==
    /\ pc = "unit_disp"
    /\ ~IsSorted(marked_facets)
    /\ \E k1, k2 \in DOMAIN facets_tags.indices :
          /\ k1 # k2
          /\ facets_tags.indices[k1] = facets_tags.indices[k2]
    /\ \E g \in 1 .. 6 : Len(GroupOf(g)) >= 2

====
